---- MODULE Spec2Model ----
(***************************************************************************)
(* Trigram-based Markov model for name generation                          *)
(* (notebooks/Trigram-based Markov Model for Name Generation.ipynb).       *)
(*                                                                         *)
(* Python strings are sequences of one-character strings; a bigram         *)
(* ch1+ch2 is the two-element sequence <<ch1, ch2>>.  A Python dict is the *)
(* sequence of its <<key, value>> items in insertion order, so that the    *)
(* order in which .items() and .values() run is part of the state.  A      *)
(* probability count / sum(outs.values()) is kept as the exact pair        *)
(* <<count, sum>>; the term -log(p) of the loss is kept as the pair p.     *)
(***************************************************************************)
EXTENDS Integers, Sequences, FiniteSets, TLC

\* ------------------------------------------------------------------ bounds
MaxNames == 2      \* entries of the corpus
MaxChars == 2      \* characters of the corpus, over all entries
MaxWordLen == 2    \* characters of a generated word that the model records

\* ------------------------------------------------------------- characters
Boundary == "."
CorpusChars == {".", "g", "h"}
InputChars == {".", "g", "h", "G", "$"}

\* the lines typed at the prompt: nothing, one character, more than one
Lines == {<<>>} \cup {<<c>> : c \in InputChars} \cup {<<"g", "h">>}

\* code points, the order sorted() uses
Ord(c) ==
  CASE c = "$" -> 36 [] c = "." -> 46 [] c = "G" -> 71
    [] c = "g" -> 103 [] c = "h" -> 104

\* str.lower() on one character
LowerChar(c) == IF c = "G" THEN "g" ELSE c

\* str.lower()
Lower(s) == [i \in 1..Len(s) |-> LowerChar(s[i])]

Min(a, b) == IF a < b THEN a ELSE b

RECURSIVE Strs(_, _)
\* strings over S of length at most n
Strs(S, n) ==
  IF n = 0 THEN {<<>>}
  ELSE {<<>>} \cup {<<c>> \o w : c \in S, w \in Strs(S, n - 1)}

RECURSIVE Corpora(_, _)
\* corpora of at most k entries and at most n characters in all
Corpora(k, n) ==
  IF k = 0 THEN {<<>>}
  ELSE {<<>>} \cup
       UNION {{<<w>> \o c : c \in Corpora(k - 1, n - Len(w))} :
              w \in Strs(CorpusChars, n)}

\* ------------------------------------------------------------ Python dict
Keys(d) == [i \in 1..Len(d) |-> d[i][1]]
Values(d) == [i \in 1..Len(d) |-> d[i][2]]
Has(d, k) == \E i \in 1..Len(d) : d[i][1] = k
Get(d, k) == d[CHOOSE i \in 1..Len(d) : d[i][1] = k][2]

\* d[k] = v : an existing key keeps its place, a new key goes last
Put(d, k, v) ==
  IF Has(d, k)
  THEN [i \in 1..Len(d) |-> IF d[i][1] = k THEN <<k, v>> ELSE d[i]]
  ELSE Append(d, <<k, v>>)

\* defaultdict.__getitem__ : a missing key is inserted with the default
Touch(d, k, dflt) == IF Has(d, k) THEN d ELSE Append(d, <<k, dflt>>)

\* bi_pairs[pair][ch] += 1 on defaultdict(lambda: defaultdict(int))
Incr(d, pair, ch) ==
  LET d1 == Touch(d, pair, <<>>)
      row == Touch(Get(d1, pair), ch, 0)
  IN Put(d1, pair, Put(row, ch, Get(row, ch) + 1))

RECURSIVE SumSeq(_)
\* sum() of a sequence of numbers
SumSeq(s) == IF s = <<>> THEN 0 ELSE s[1] + SumSeq(Tail(s))

\* ---------------------------------------------------------------- Step 2
\* {ch for name in names for ch in name}
CharsOf(ns) == UNION {{ns[i][j] : j \in 1..Len(ns[i])} : i \in 1..Len(ns)}

RECURSIVE SortedSeq(_)
\* sorted() of a set of characters
SortedSeq(S) ==
  IF S = {} THEN <<>>
  ELSE LET m == CHOOSE c \in S : \A e \in S : Ord(c) <= Ord(e)
       IN <<m>> \o SortedSeq(S \ {m})

\* chs : the set of the corpus characters, '.' added, sorted
Alphabet(ns) == SortedSeq(CharsOf(ns) \cup {Boundary})

RECURSIVE SmoothFrom(_, _, _, _)
\* the three nested loops from their n-th iteration on; the innermost loop
\* runs over `third` (the test on d1, which never fails after += 1, only makes
\* each increment be evaluated before the next iteration)
SmoothFrom(d, cs, third, n) ==
  IF n = Len(cs) * Len(cs) * Len(cs) THEN d
  ELSE LET A == Len(cs)
           i == (n \div (A * A)) + 1
           j == ((n \div A) % A) + 1
           k == (n % A) + 1
           d1 == Incr(d, <<cs[i], cs[j]>>, third[k])
       IN IF Len(d1) > 0 THEN SmoothFrom(d1, cs, third, n + 1) ELSE d1

Reverse(s) == [i \in 1..Len(s) |-> s[Len(s) + 1 - i]]

\* the smoothing loops with the innermost one running backwards
SmoothingPassReversed(d, cs) == SmoothFrom(d, cs, Reverse(cs), 0)

\* no smoothing at all
SmoothingPassSkipped(d, cs) == d

\* apply Laplace smoothing: for ch1, ch2, ch3 in chs: bi_pairs[ch1+ch2][ch3] += 1
SmoothingPass(d, cs) == SmoothFrom(d, cs, cs, 0)

\* a wrap that forgets the closing boundary symbol
WrapOpenOnly(name) == <<Boundary>> \o name

\* f'.{name}.'
Wrap(name) == <<Boundary>> \o name \o <<Boundary>>

\* zip(name, name[1:], name[2:]) : stops with the shortest of the three
Zip3(w) ==
  LET a == w
      b == SubSeq(w, 2, Len(w))
      c == SubSeq(w, 3, Len(w))
      n == Min(Len(a), Min(Len(b), Len(c)))
  IN [i \in 1..n |-> <<a[i], b[i], c[i]>>]

\* every window of the corpus, in the order the loops visit them
RECURSIVE Windows(_)
Windows(ns) ==
  IF ns = <<>> THEN <<>> ELSE Zip3(Wrap(Head(ns))) \o Windows(Tail(ns))

RECURSIVE CountFrom(_, _)
CountFrom(d, ws) ==
  IF ws = <<>> THEN d
  ELSE LET d1 == Incr(d, <<ws[1][1], ws[1][2]>>, ws[1][3])
       IN IF Len(d1) > 0 THEN CountFrom(d1, Tail(ws)) ELSE d1

\* entries holding the boundary symbol dropped from the corpus
WithoutBoundary(ns) == SelectSeq(ns, LAMBDA w : \A j \in 1..Len(w) : w[j] # Boundary)

\* a corpus pass that counts only the entries free of the boundary symbol
CorpusPassCleanOnly(d, ns) == CountFrom(d, Windows(WithoutBoundary(ns)))

\* process names into bigrams: bi_pairs[ch1+ch2][ch3] += 1 for each window
CorpusPass(d, ns) == CountFrom(d, Windows(ns))

\* ---------------------------------------------------------------- Step 3
\* ShapeSymbols : the alphabet size the debug cell asserts
ShapeSymbols == 27

\* the debug probe bi_pairs['gh'] : a read of a defaultdict
ProbeGH(d) == Touch(d, <<"g", "h">>, <<>>)

\* assert len(outs_of_gh) == 27 and len(bi_pairs) == 27**2
ShapeAssert(d) ==
  /\ Len(Get(d, <<"g", "h">>)) = ShapeSymbols
  /\ Len(d) = ShapeSymbols * ShapeSymbols

\* the same with the counter read after it has advanced
EncodeFromOne(keys, first) == [i \in 1..Len(keys) |-> <<first + i, keys[i]>>]

\* for x in keys: id_to_x[next(gen)] = x, gen = count() standing at `first`
Encode(keys, first) == [i \in 1..Len(keys) |-> <<first + i - 1, keys[i]>>]

\* ---------------------------------------------------------------- Step 4
\* one row of bi_pairs_prob: count / sum(outs.values()) for each item of outs
ProbRow(outs) ==
  [i \in 1..Len(outs) |-> <<outs[i][1], <<outs[i][2], SumSeq(Values(outs))>>>>]

RECURSIVE ProbFrom(_, _)
\* for bigram, outs in bi_pairs.items(): for chr, count in outs.items(): ...
\* a bigram whose outs is empty is never looked up in bi_pairs_prob
ProbFrom(p, items) ==
  IF items = <<>> THEN p
  ELSE LET bigram == items[1][1]
           outs == items[1][2]
       IN ProbFrom(IF outs = <<>> THEN p ELSE Put(Touch(p, bigram, <<>>), bigram, ProbRow(outs)),
                   Tail(items))

\* the loop variable chr after the cell: the last character visited, if any
RECURSIVE LastChr(_, _)
LastChr(c, items) ==
  IF items = <<>> THEN c
  ELSE LET outs == items[1][2]
       IN LastChr(IF outs = <<>> THEN c ELSE <<outs[Len(outs)][1]>>, Tail(items))

\* ------------------------------------------------------------------- loss
RECURSIVE Invert(_, _)
\* {v: k for k, v in d.items()}
Invert(acc, items) ==
  IF items = <<>> THEN acc
  ELSE Invert(Put(acc, items[1][2], items[1][1]), Tail(items))

Zero == <<0, 1>>

\* torch.zeros((rows, cols))
Zeros(rows, cols) == [r \in 0..rows - 1 |-> [c \in 0..cols - 1 |-> Zero]]

RECURSIVE FillRow(_, _, _, _)
\* for char, prob in char_probs.items(): prob_matrix[r, char_to_id[char]] = prob
FillRow(m, r, cprobs, c2i) ==
  IF cprobs = <<>> THEN m
  ELSE FillRow([m EXCEPT ![r][Get(c2i, cprobs[1][1])] = cprobs[1][2]],
               r, Tail(cprobs), c2i)

RECURSIVE FillMatrix(_, _, _, _)
\* for bigram, char_probs in bi_pairs_prob.items(): ...
FillMatrix(m, probs, b2i, c2i) ==
  IF probs = <<>> THEN m
  ELSE FillMatrix(FillRow(m, Get(b2i, probs[1][1]), probs[1][2], c2i),
                  Tail(probs), b2i, c2i)

\* nlls : one term per window, F.nll_loss(log(prob_matrix[bigram_i]), target_i)
Nlls(ns, m, b2i, c2i) ==
  LET ws == Windows(ns)
  IN [i \in 1..Len(ws) |-> m[Get(b2i, <<ws[i][1], ws[i][2]>>)][Get(c2i, ws[i][3])]]

NoLoss == [kind |-> "unset", total |-> <<>>, n |-> 0]

\* a mean that answers an empty list with the value 0 over 1
MeanOrZero(terms) == [kind |-> "value", total |-> terms,
                      n |-> IF Len(terms) = 0 THEN 1 ELSE Len(terms)]

\* sum(nlls) / len(nlls) : the sum of no terms is the int 0, and 0 / 0 raises
Mean(terms) ==
  IF Len(terms) = 0
  THEN [kind |-> "ZeroDivisionError", total |-> <<>>, n |-> 0]
  ELSE [kind |-> "value", total |-> terms, n |-> Len(terms)]

\* ------------------------------------------------------------------ state
VARIABLES
  names,         \* the corpus, as read from names.txt
  pc,            \* where the notebook stands
  chs,           \* the sorted alphabet
  bi_pairs,      \* bigram -> (character -> count)
  shape,         \* outcome of the debug cell's assert
  id_to_char, id_to_bigram,
  bi_pairs_prob, \* bigram -> (character -> probability)
  inp,           \* the last line typed at the prompt
  chr,           \* the running bigram of the sampling loop
  word,          \* the name being generated
  drawn,         \* the characters sampled since the last line was typed
  output,        \* what the generation cell printed since the last line was typed
  err,           \* the exception the sampling loop raised, if any
  longer,        \* the loop has gone on past the MaxWordLen characters recorded
  bigram_to_id, char_to_id, prob_matrix, nlls, loss

vars == <<names, pc, chs, bi_pairs, shape, id_to_char, id_to_bigram,
          bi_pairs_prob, inp, chr, word, drawn, output, err, longer,
          bigram_to_id, char_to_id, prob_matrix, nlls, loss>>

buildVars == <<chs, bi_pairs>>
encVars == <<id_to_char, id_to_bigram>>
genVars == <<inp, chr, word, drawn, output, err, longer>>
lossVars == <<bigram_to_id, char_to_id, prob_matrix, nlls, loss>>

NoOutput == [kind |-> "none", text |-> <<>>]

Init ==
  /\ names \in Corpora(MaxNames, MaxChars)
  /\ pc = "loaded"
  /\ chs = <<>>
  /\ bi_pairs = <<>>
  /\ shape = "unchecked"
  /\ id_to_char = <<>>
  /\ id_to_bigram = <<>>
  /\ bi_pairs_prob = <<>>
  /\ inp = <<>>
  /\ chr = <<>>
  /\ word = <<>>
  /\ drawn = <<>>
  /\ output = NoOutput
  /\ err = "none"
  /\ longer = FALSE
  /\ bigram_to_id = <<>>
  /\ char_to_id = <<>>
  /\ prob_matrix = <<>>
  /\ nlls = <<>>
  /\ loss = NoLoss

\* Step 2: the alphabet, the smoothing pass, then the corpus pass
BuildCell ==
  /\ pc = "loaded"
  /\ chs' = Alphabet(names)
  /\ bi_pairs' = CorpusPass(SmoothingPass(<<>>, chs'), names)
  /\ pc' = "built"
  /\ UNCHANGED <<names, shape, encVars, bi_pairs_prob, genVars, lossVars>>

\* the "For debugging" cell: the probe, then the assert; a failed assert ends
\* the run and leaves the kernel's variables as the probe left them
DebugCell ==
  /\ pc = "built"
  /\ shape = "unchecked"
  /\ bi_pairs' = ProbeGH(bi_pairs)
  /\ IF ShapeAssert(bi_pairs')
     THEN shape' = "OK" /\ pc' = pc
     ELSE shape' = "AssertionError" /\ pc' = "aborted"
  /\ UNCHANGED <<names, chs, encVars, bi_pairs_prob, genVars, lossVars>>

\* Step 3: two independent counters, each starting at 0
EncodeCell ==
  /\ pc = "built"
  /\ id_to_char' = Encode(chs, 0)
  /\ id_to_bigram' = Encode(Keys(bi_pairs), 0)
  /\ pc' = "encoded"
  /\ UNCHANGED <<names, buildVars, shape, bi_pairs_prob, genVars, lossVars>>

\* Step 4: counts to probabilities
ProbCell ==
  /\ pc = "encoded"
  /\ bi_pairs_prob' = ProbFrom(<<>>, bi_pairs)
  /\ chr' = LastChr(chr, bi_pairs)
  /\ pc' = "model"
  /\ UNCHANGED <<names, buildVars, shape, encVars, inp, word, drawn, output, err,
                 longer, lossVars>>

\* Step 5 is started: the outer loop reaches the prompt with word = ''
GenCell ==
  /\ pc = "model"
  /\ word' = <<>>
  /\ pc' = "prompt"
  /\ UNCHANGED <<names, buildVars, shape, encVars, bi_pairs_prob, inp, chr, drawn,
                 output, err, longer, lossVars>>

\* `chr not in chs` negated: chs is a list of one-character strings, so the
\* typed line is in it when it equals one of them
Accepts(s, cs) == \E i \in 1..Len(cs) : s = <<cs[i]>>

\* a line is typed: lower-cased, then refused with Goodbye or taken as the start
ReadInput(line) ==
  /\ pc = "prompt"
  /\ inp' = line
  /\ LET c == Lower(line)
     IN IF ~Accepts(c, chs)
        THEN /\ output' = [kind |-> "Goodbye", text |-> <<>>]
             /\ chr' = c
             /\ pc' = "model"
             /\ UNCHANGED word
        ELSE /\ output' = NoOutput
             /\ chr' = <<Boundary, c[Len(c)]>>
             /\ word' = <<c[Len(c)]>>
             /\ pc' = "sampling"
  /\ drawn' = <<>>
  /\ longer' = FALSE
  /\ UNCHANGED <<names, buildVars, shape, encVars, bi_pairs_prob, err, lossVars>>

\* the indices torch.multinomial can return: those of positive weight
Drawable(weights) == {i \in 0..Len(weights) - 1 : weights[i + 1][1] > 0}

\* a break test that never fires
NeverStops(c) == FALSE

\* `if chr[-1] == '.': break`
Stops(c) == c = Boundary

\* one turn of the inner loop; an empty or all-zero row makes multinomial raise.
\* A word of MaxWordLen characters is not extended here: see SampleBeyond
Sample ==
  /\ pc = "sampling"
  /\ bi_pairs_prob' = Touch(bi_pairs_prob, chr, <<>>)
  /\ LET weights == Values(Get(bi_pairs_prob', chr))
     IN IF Drawable(weights) = {}
        THEN /\ err' = "RuntimeError"
             /\ pc' = "model"
             /\ UNCHANGED <<chr, word, drawn, output>>
        ELSE \E i \in Drawable(weights) :
               IF ~Has(id_to_char, i)
               THEN /\ err' = "KeyError"
                    /\ pc' = "model"
                    /\ UNCHANGED <<chr, word, drawn, output>>
               ELSE LET c == Get(id_to_char, i)
                    IN /\ chr' = <<chr[Len(chr)], c>>
                       /\ drawn' = Append(drawn, c)
                       /\ err' = err
                       /\ IF Stops(c)
                          THEN /\ output' = [kind |-> "Name", text |-> word]
                               /\ word' = <<>>
                               /\ pc' = "prompt"
                          ELSE /\ Len(word) < MaxWordLen
                               /\ word' = Append(word, c)
                               /\ pc' = "sampling"
                               /\ UNCHANGED output
  /\ UNCHANGED <<names, buildVars, shape, encVars, inp, longer, lossVars>>

\* a turn of the inner loop that draws a symbol other than the boundary symbol
\* when the word already has MaxWordLen characters: the loop goes on from the
\* next bigram, and word and drawn keep only what was recorded so far
SampleBeyond ==
  /\ pc = "sampling"
  /\ Len(word) = MaxWordLen
  /\ Has(bi_pairs_prob, chr)
  /\ \E i \in Drawable(Values(Get(bi_pairs_prob, chr))) :
       /\ Has(id_to_char, i)
       /\ ~Stops(Get(id_to_char, i))
       /\ chr' = <<chr[Len(chr)], Get(id_to_char, i)>>
  /\ longer' = TRUE
  /\ UNCHANGED <<names, pc, buildVars, shape, encVars, bi_pairs_prob, inp, word,
                 drawn, output, err, lossVars>>

\* the loss cell: the inverse maps, the matrix, one term per window, the mean
LossCell ==
  /\ pc = "model"
  /\ bigram_to_id' = Invert(<<>>, id_to_bigram)
  /\ char_to_id' = Invert(<<>>, id_to_char)
  /\ prob_matrix' = FillMatrix(Zeros(Len(bigram_to_id'), Len(char_to_id')),
                               bi_pairs_prob, bigram_to_id', char_to_id')
  /\ nlls' = Nlls(names, prob_matrix', bigram_to_id', char_to_id')
  /\ loss' = Mean(nlls')
  /\ UNCHANGED <<names, pc, buildVars, shape, encVars, bi_pairs_prob, genVars>>

Next ==
  \/ BuildCell
  \/ DebugCell
  \/ EncodeCell
  \/ ProbCell
  \/ GenCell
  \/ \E line \in Lines : ReadInput(line)
  \/ Sample
  \/ SampleBeyond
  \/ LossCell

Spec == Init /\ [][Next]_vars

\* a turn of the inner loop that draws the symbol c
DrawOf(c) == (Sample \/ SampleBeyond) /\ chr' = <<chr[Len(chr)], c>>

\* fair sampling: a symbol that can be drawn again and again is drawn; stated
\* for the boundary symbol, the only symbol whose draw ends the loop
FairSpec == Spec /\ SF_vars(DrawOf(Boundary))

\* ----------------------------------------------------------------- claims
Built == pc # "loaded"
Encoded == pc \in {"encoded", "model", "prompt", "sampling"}
Ready == pc \in {"model", "prompt", "sampling"}
LossRan == loss.kind # "unset"

AlphaSet == {chs[i] : i \in 1..Len(chs)}
Contexts == {<<a, b>> : a \in AlphaSet, b \in AlphaSet}
A == Len(chs)

\* the count stored for (c1, c2) -> c3, 0 when there is none
Count(d, c1, c2, c3) ==
  IF Has(d, <<c1, c2>>) /\ Has(Get(d, <<c1, c2>>), c3)
  THEN Get(Get(d, <<c1, c2>>), c3) ELSE 0

\* the positions of '.' name '.' at which c1 c2 c3 stand in a row
Positions(name, c1, c2, c3) ==
  LET w == <<".">> \o name \o <<".">>
  IN {p \in 1..Len(w) - 2 : w[p] = c1 /\ w[p + 1] = c2 /\ w[p + 2] = c3}

RECURSIVE Occurrences(_, _, _, _)
Occurrences(ns, c1, c2, c3) ==
  IF ns = <<>> THEN 0
  ELSE Cardinality(Positions(Head(ns), c1, c2, c3)) + Occurrences(Tail(ns), c1, c2, c3)

RECURSIVE TotalLen(_)
TotalLen(ns) == IF ns = <<>> THEN 0 ELSE Len(Head(ns)) + TotalLen(Tail(ns))

RECURSIVE TotalCount(_)
\* the sum of every count of the table
TotalCount(d) == IF d = <<>> THEN 0 ELSE SumSeq(Values(d[1][2])) + TotalCount(Tail(d))

HasEmbeddedBoundary == \E i \in 1..Len(names) : \E j \in 1..Len(names[i]) : names[i][j] = Boundary

\* C1: once built, the table has exactly A*A contexts, each with exactly A
\* entries, every entry >= 1, and no later step adds a context or an entry.
C1_ShapeKept ==
  Built =>
    /\ Len(bi_pairs) = A * A
    /\ \A i \in 1..Len(bi_pairs) :
         /\ Len(bi_pairs[i][2]) = A
         /\ \A j \in 1..Len(bi_pairs[i][2]) : bi_pairs[i][2][j][2] >= 1

\* C2: the final count of (ch1, ch2) -> ch3 is 1 plus the number of positions
\* of the wrapped corpus entries at which ch1 ch2 ch3 stand in a row; an entry
\* of length n adds exactly n to the counts.
C2_Counts ==
  Built =>
    /\ \A c1 \in AlphaSet, c2 \in AlphaSet, c3 \in AlphaSet :
         Count(bi_pairs, c1, c2, c3) = 1 + Occurrences(names, c1, c2, c3)
    /\ TotalCount(bi_pairs) = A * A * A + TotalLen(names)

C2_Witness ==
  /\ pc = "built"
  /\ Len(names) = 2
  /\ \E c1 \in AlphaSet, c2 \in AlphaSet, c3 \in AlphaSet :
       Count(bi_pairs, c1, c2, c3) = 3

\* C3: a printed name is non-empty, holds no boundary symbol, and is the start
\* symbol followed by the sampled symbols up to the boundary draw, in order.
C3_NameHasNoBoundary ==
  (output.kind = "Name" /\ ~longer) =>
    /\ output.text # <<>>
    /\ \A i \in 1..Len(output.text) : output.text[i] # Boundary
    /\ drawn # <<>>
    /\ output.text = <<Lower(inp)[Len(inp)]>> \o SubSeq(drawn, 1, Len(drawn) - 1)

\* C4: a start symbol is accepted only if it is a symbol of the alphabet other
\* than the boundary symbol; any other line is refused before anything is
\* sampled and no name is printed.
C4_StartValidated ==
  LET c == Lower(inp)
      valid == Len(c) = 1 /\ c[1] \in AlphaSet /\ c[1] # Boundary
  IN /\ (pc = "sampling" \/ output.kind = "Name") => valid
     /\ (output.kind = "Goodbye") => (~valid /\ drawn = <<>> /\ pc # "sampling")

\* C5: the sampling loop is left exactly when the boundary symbol is drawn,
\* which is the first time it is drawn, and under fair sampling every run of
\* the loop ends.
C5_StopsAtBoundary ==
  /\ [](pc = "sampling" => \A i \in 1..Len(drawn) : drawn[i] # Boundary)
  /\ [][pc = "sampling" =>
          /\ Len(chr') = 2
          /\ (pc' # "sampling") <=> (chr'[2] = Boundary)]_vars
  /\ (pc = "sampling") ~> (pc = "prompt" /\ output.kind = "Name")

\* a run of the loop that went on past the recorded length and then ended
C5_Witness ==
  /\ output.kind = "Name"
  /\ longer
  /\ drawn[Len(drawn)] = Boundary

\* C6: the symbol IDs are 0..A-1 and the context IDs 0..A*A-1, each assigned
\* once, and the inverse maps of the loss cell undo them in both directions.
C6_Bijections ==
  /\ Encoded =>
       /\ {id_to_char[i][1] : i \in 1..Len(id_to_char)} = 0..A - 1
       /\ Len(id_to_char) = A
       /\ {id_to_char[i][2] : i \in 1..Len(id_to_char)} = AlphaSet
       /\ {id_to_bigram[i][1] : i \in 1..Len(id_to_bigram)} = 0..A * A - 1
       /\ Len(id_to_bigram) = A * A
       /\ {id_to_bigram[i][2] : i \in 1..Len(id_to_bigram)} = Contexts
  /\ LossRan =>
       /\ Len(char_to_id) = A
       /\ Len(bigram_to_id) = A * A
       /\ \A x \in AlphaSet :
            Has(char_to_id, x) /\ Has(id_to_char, Get(char_to_id, x))
            /\ Get(id_to_char, Get(char_to_id, x)) = x
       /\ \A x \in Contexts :
            Has(bigram_to_id, x) /\ Has(id_to_bigram, Get(bigram_to_id, x))
            /\ Get(id_to_bigram, Get(bigram_to_id, x)) = x

C6_Witness == LossRan /\ A = 3 /\ Get(char_to_id, "h") = 2

RECURSIVE TermsOf(_, _)
\* for every window of the corpus, in order, its count over the sum of its row
TermsOf(ns, d) ==
  IF ns = <<>> THEN <<>>
  ELSE LET w == <<".">> \o Head(ns) \o <<".">>
       IN [p \in 1..Len(w) - 2 |->
             <<Count(d, w[p], w[p + 1], w[p + 2]),
               SumSeq(Values(Get(d, <<w[p], w[p + 1]>>)))>>]
          \o TermsOf(Tail(ns), d)

\* C7: on a corpus of no window the loss cell raises instead of giving a
\* value; otherwise the loss is the sum of one term per window of the whole
\* corpus divided by the number of those windows.
C7_MeanOverWindows ==
  LossRan =>
    IF TotalLen(names) = 0
    THEN loss.kind = "ZeroDivisionError"
    ELSE /\ loss.kind = "value"
         /\ loss.n = TotalLen(names)
         /\ loss.total = TermsOf(names, bi_pairs)

C7_Witness == loss.kind = "ZeroDivisionError" /\ Len(names) = MaxNames

C9_ReadOnly ==
  /\ [](pc = "sampling" =>
          /\ Has(bi_pairs_prob, chr)
          /\ chr \in Contexts
          /\ Len(bi_pairs_prob) = A * A)
  /\ [](err = "none")
  /\ [][Ready =>
          /\ UNCHANGED <<chs, bi_pairs, id_to_char, id_to_bigram, bi_pairs_prob>>
          /\ LossRan => UNCHANGED <<bigram_to_id, char_to_id, prob_matrix>>]_vars

C9_Witness ==
  /\ LossRan
  /\ output.kind = "Name"
  /\ Len(output.text) = 2
  /\ Occurrences(names, ".", output.text[1], output.text[2]) = 0

\* C10: in every row of probabilities the entry at position i is the entry of
\* the symbol whose ID is i, so the sampled index decodes to the symbol whose
\* probability stood at that index.
C10_RowOrderIsIdOrder ==
  Ready =>
    \A r \in 1..Len(bi_pairs_prob) :
      LET row == bi_pairs_prob[r][2]
      IN /\ Len(row) = A
         /\ \A i \in 1..Len(row) :
              Has(id_to_char, i - 1) /\ Get(id_to_char, i - 1) = row[i][1]

C10_Witness ==
  /\ pc = "sampling"
  /\ A = 3
  /\ drawn = <<"h">>
  /\ Get(bi_pairs_prob, <<".", "g">>)[3] = <<"h", <<2, 4>>>>

====
